---------------------------- MODULE Spec2Model ----------------------------
(***************************************************************************)
(* Image upload / retrieval / soft-delete service                          *)
(* (src/src/services/image_service.py and its collaborators).              *)
(*                                                                         *)
(* Strings that the code inspects character by character (file names,      *)
(* titles, tags, owner ids, the stored comma-joined tag string) are        *)
(* sequences of one-character strings.  An Optional[X] value is <<>> for   *)
(* None and <<x>> for a present x.  A timestamp is a number of Times, and  *)
(* the year/month of a timestamp is that number.  Invocations run on       *)
(* hosts of their own, so a reading of datetime.utcnow() is an input of    *)
(* the step that makes it; only the two readings inside create_new are     *)
(* ordered.                                                                *)
(***************************************************************************)
EXTENDS Integers, Sequences, FiniteSets, TLC

VARIABLES
    s3,       \* blob store: set of object keys present in the bucket
    db,       \* metadata store: set of items of the table
    nextId,   \* number of uuid4 values drawn so far
    sent,     \* history: for every upload that returned success, its id and
              \* its arguments
    pc,       \* per invocation slot: position inside a multi-call operation
    loc,      \* per invocation slot: local variables of the running operation
    resp      \* the invocation that has just returned: operation, arguments,
              \* result and the storage calls it issued; NoResp once the
              \* caller has taken the response

vars == <<s3, db, nextId, sent, pc, loc, resp>>

-----------------------------------------------------------------------------
(* Bounds of the model *)

MaxUploads == 1

\* the invocation slots: at most this many multi-call operations are in flight
\* at once
Procs == {1, 2}

None == <<>>
Some(x) == <<x>>
IsNone(o) == o = <<>>
Val(o) == o[1]

-----------------------------------------------------------------------------
(* Characters and Python string helpers *)

UpperLetters == {"J", "P", "G", "N"}
LowerLetters == {"a", "b", "u", "j", "p", "g", "n", "e", "t", "x", "w", "i", "f"}
Digits == {"1", "2"}

IsSpace(c) == c = " "

\* str.lower() on one character
LowerChar(c) ==
    CASE c = "J" -> "j"
      [] c = "P" -> "p"
      [] c = "G" -> "g"
      [] c = "N" -> "n"
      [] OTHER -> c

\* str.lower()
Lower(s) == [i \in 1..Len(s) |-> LowerChar(s[i])]

\* index of the last occurrence of c in s, 0 when there is none
RECURSIVE LastIndexOf(_, _)
LastIndexOf(s, c) ==
    IF s = <<>> THEN 0
    ELSE IF s[Len(s)] = c THEN Len(s)
    ELSE LastIndexOf(SubSeq(s, 1, Len(s) - 1), c)

\* s.split(c)[-1]
LastSegment(s, c) == SubSeq(s, LastIndexOf(s, c) + 1, Len(s))

RECURSIVE LStrip(_)
LStrip(s) == IF s # <<>> /\ IsSpace(s[1]) THEN LStrip(Tail(s)) ELSE s

RECURSIVE RStrip(_)
RStrip(s) ==
    IF s # <<>> /\ IsSpace(s[Len(s)]) THEN RStrip(SubSeq(s, 1, Len(s) - 1)) ELSE s

\* str.strip()
Strip(s) == LStrip(RStrip(s))

\* re.match(r'^[a-zA-Z0-9\s\-_]+$', tag)
TagCharsetOK(s) ==
    /\ s # <<>>
    /\ \A i \in 1..Len(s) :
          s[i] \in UpperLetters \cup LowerLetters \cup Digits \cup {" ", "-", "_"}

\* re.match(r'^[a-zA-Z0-9\-_]+$', user_id)
UserCharsetOK(s) ==
    /\ s # <<>>
    /\ \A i \in 1..Len(s) :
          s[i] \in UpperLetters \cup LowerLetters \cup Digits \cup {"-", "_"}

\* ','.join(list)
RECURSIVE JoinComma(_)
JoinComma(l) ==
    IF l = <<>> THEN <<>>
    ELSE IF Len(l) = 1 THEN l[1]
    ELSE l[1] \o <<",">> \o JoinComma(Tail(l))

\* s.split(',')
RECURSIVE SplitComma(_)
SplitComma(s) ==
    IF \A i \in 1..Len(s) : s[i] # ","
    THEN <<s>>
    ELSE LET k == CHOOSE i \in 1..Len(s) :
                      s[i] = "," /\ \A j \in 1..(i - 1) : s[j] # ","
         IN  <<SubSeq(s, 1, k - 1)>> \o SplitComma(SubSeq(s, k + 1, Len(s)))

-----------------------------------------------------------------------------
(* src/src/utils/validators.py *)

ALLOWED_EXTENSIONS ==
    { <<"j","p","g">>, <<"j","p","e","g">>, <<"p","n","g">>,
      <<"g","i","f">>, <<"w","e","b","p">> }
MAX_FILE_SIZE == 10485760
MIN_FILE_SIZE == 1024
MAX_DIMENSION == 4000
MIN_DIMENSION == 50
MAX_TITLE_LENGTH == 200
MAX_DESCRIPTION_LENGTH == 1000
MAX_TAGS_COUNT == 10
MAX_TAG_LENGTH == 50

validate_file_extension(filename) ==
    IF filename = <<>> THEN FALSE
    ELSE LastSegment(Lower(filename), ".") \in ALLOWED_EXTENSIONS

validate_file_size(file_size) ==
    MIN_FILE_SIZE <= file_size /\ file_size <= MAX_FILE_SIZE

\* image.format.lower() if image.format else 'unknown'
FormatLower(fmt) ==
    IF IsNone(fmt) THEN "unknown"
    ELSE CASE Val(fmt) = "JPEG" -> "jpeg"
           [] Val(fmt) = "PNG"  -> "png"
           [] Val(fmt) = "GIF"  -> "gif"
           [] Val(fmt) = "WEBP" -> "webp"
           [] Val(fmt) = "BMP"  -> "bmp"

\* file_content.image is what PIL's Image.open makes of the bytes: None when
\* it raises, else the decoded size and format.
validate_image_content(file_content) ==
    IF IsNone(file_content.image)
    THEN [valid |-> FALSE, error |-> "Invalid image file"]
    ELSE LET image == Val(file_content.image) IN
         IF \/ image.width < MIN_DIMENSION
            \/ image.height < MIN_DIMENSION
            \/ image.width > MAX_DIMENSION
            \/ image.height > MAX_DIMENSION
         THEN [valid |-> FALSE,
               error |-> "Image dimensions must be between 50px and 4000px"]
         ELSE [valid |-> TRUE, width |-> image.width, height |-> image.height,
               format |-> FormatLower(image.format)]

validate_title(title) ==
    IF IsNone(title) \/ Val(title) = <<>> THEN [valid |-> TRUE]
    ELSE IF Len(Strip(Val(title))) = 0
    THEN [valid |-> FALSE, error |-> "Title cannot be empty"]
    ELSE IF Len(Val(title)) > MAX_TITLE_LENGTH
    THEN [valid |-> FALSE, error |-> "Title must be less than 200 characters"]
    ELSE [valid |-> TRUE]

validate_description(description) ==
    IF IsNone(description) \/ Val(description) = <<>> THEN [valid |-> TRUE]
    ELSE IF Len(Val(description)) > MAX_DESCRIPTION_LENGTH
    THEN [valid |-> FALSE,
          error |-> "Description must be less than 1000 characters"]
    ELSE [valid |-> TRUE]

\* the for-loop over the tags: the verdict of the first tag that fails
RECURSIVE validate_tag_loop(_)
validate_tag_loop(tags) ==
    IF tags = <<>> THEN [valid |-> TRUE]
    ELSE LET tag == Head(tags) IN
         IF Len(Strip(tag)) = 0
         THEN [valid |-> FALSE, error |-> "Tags cannot be empty"]
         ELSE IF Len(tag) > MAX_TAG_LENGTH
         THEN [valid |-> FALSE,
               error |-> "Each tag must be less than 50 characters"]
         ELSE IF ~TagCharsetOK(tag)
         THEN [valid |-> FALSE,
               error |-> "Tags can only contain letters, numbers, spaces, hyphens, and underscores"]
         ELSE validate_tag_loop(Tail(tags))

validate_tags(tags) ==
    IF IsNone(tags) \/ Val(tags) = <<>> THEN [valid |-> TRUE]
    ELSE IF Len(Val(tags)) > MAX_TAGS_COUNT
    THEN [valid |-> FALSE, error |-> "Maximum 10 tags allowed"]
    ELSE validate_tag_loop(Val(tags))

validate_user_id(user_id) ==
    IF user_id = <<>>
    THEN [valid |-> FALSE, error |-> "User ID is required"]
    ELSE IF Len(Strip(user_id)) = 0
    THEN [valid |-> FALSE, error |-> "User ID cannot be empty"]
    ELSE IF ~UserCharsetOK(user_id)
    THEN [valid |-> FALSE,
          error |-> "User ID can only contain letters, numbers, hyphens, and underscores"]
    ELSE [valid |-> TRUE]

-----------------------------------------------------------------------------
(* src/src/models/image_model.py *)

\* pydantic's checks on ImageUploadRequest: Field(max_length), Field(max_items),
\* Field(min_length) and the 'tags' validator.  Only requests that pass can
\* exist as ImageUploadRequest objects.
ImageUploadRequestOK(req) ==
    /\ IsNone(req.title) \/ Len(Val(req.title)) <= MAX_TITLE_LENGTH
    /\ IsNone(req.description)
          \/ Len(Val(req.description)) <= MAX_DESCRIPTION_LENGTH
    /\ IsNone(req.tags)
          \/ /\ Len(Val(req.tags)) <= MAX_TAGS_COUNT
             /\ \A i \in 1..Len(Val(req.tags)) :
                   /\ Strip(Val(req.tags)[i]) # <<>>
                   /\ Len(Val(req.tags)[i]) <= MAX_TAG_LENGTH
    /\ Len(req.user_id) >= 1

\* f"images/{date_path}/{image_id}.{format.lower()}"
S3Key(date_path, image_id, format) ==
    [prefix |-> "images", date_path |-> date_path, image_id |-> image_id,
     ext |-> format]

\* f"image/{format}"
ContentType(format) == [type |-> "image", subtype |-> format]

\* strftime('%Y/%m') of a reading of the clock: readings 0 and 1 fall in one
\* month, readings 2 and 3 in the next
YearMonth(t) == t \div 2

\* ImageMetadata.create_new: image_id is the uuid4 drawn, now and date_now the
\* two readings of datetime.utcnow().
create_new(upload_request, file_name, file_size, content_type, width, height, format, image_id, now, date_now) ==
    [image_id |-> image_id,
     created_at |-> now,
     user_id |-> upload_request.user_id,
     title |-> upload_request.title,
     description |-> upload_request.description,
     tags |-> upload_request.tags,
     file_name |-> file_name,
     file_size |-> file_size,
     content_type |-> content_type,
     width |-> width,
     height |-> height,
     format |-> format,
     s3_key |-> S3Key(YearMonth(date_now), image_id, format),
     is_deleted |-> FALSE,
     updated_at |-> None]

\* the fields of ImageResponse that are filled from the stored item
ImageResponseFields ==
    {"image_id", "created_at", "user_id", "title", "description", "tags",
     "file_name", "file_size", "content_type", "width", "height", "format"}

-----------------------------------------------------------------------------
(* src/src/utils/s3_client.py and src/src/utils/dynamodb_client.py.        *)
(* Every call either takes effect and reports success, or raises           *)
(* ClientError, has no effect and reports failure (ok = FALSE).            *)

\* S3Client.upload_image: the bucket after put_object
S3Put(bucket, key, ok) == IF ok THEN bucket \cup {key} ELSE bucket

\* S3Client.delete_image: the bucket after delete_object
S3Delete(bucket, key, ok) == IF ok THEN bucket \ {key} ELSE bucket

SameKey(item, image_id, created_at) ==
    item.image_id = image_id /\ item.created_at = created_at

\* DynamoDBClient.put_image_metadata: the table after put_item (an upsert at
\* the item's (image_id, created_at) key)
DbPut(table, item, ok) ==
    IF ok
    THEN {i \in table : ~SameKey(i, item.image_id, item.created_at)}
            \cup {item}
    ELSE table

\* DynamoDBClient.get_image_metadata_by_id: the first item of the query on
\* the partition key, in sort-key (created_at) order; None when there is
\* none or the query raised ClientError
get_image_metadata_by_id(table, image_id, ok) ==
    LET items == {i \in table : i.image_id = image_id} IN
    IF ~ok \/ items = {} THEN None
    ELSE Some(CHOOSE i \in items : \A j \in items : i.created_at <= j.created_at)

\* dict.get(name, default) on an item
Get(item, name, default) ==
    IF name \in DOMAIN item THEN item[name] ELSE default

\* item with the attributes of updates set (SET a = :a, ...)
SetAttrs(item, updates) ==
    [a \in DOMAIN item \cup DOMAIN updates |->
        IF a \in DOMAIN updates THEN updates[a] ELSE item[a]]

\* a variant of DbUpdate that removes the item
DbUpdate_Removes(table, image_id, created_at, updates, ok) ==
    IF ~ok THEN table
    ELSE {i \in table : ~SameKey(i, image_id, created_at)}

\* a variant of DbUpdate that writes the attributes although the call fails
DbUpdate_WritesOnFailure(table, image_id, created_at, updates, ok) ==
    {IF SameKey(i, image_id, created_at) THEN SetAttrs(i, updates) ELSE i
        : i \in table}

\* DynamoDBClient.update_image_metadata: the table after update_item at the
\* exact (image_id, created_at) key; update_item creates the item when no
\* item has that key
DbUpdate(table, image_id, created_at, updates, ok) ==
    IF ~ok THEN table
    ELSE IF \E i \in table : SameKey(i, image_id, created_at)
    THEN {IF SameKey(i, image_id, created_at) THEN SetAttrs(i, updates) ELSE i
             : i \in table}
    ELSE table \cup
           {SetAttrs([image_id |-> image_id, created_at |-> created_at],
                     updates)}

\* the primary key of an item, as LastEvaluatedKey of a scan gives it
TableKey(item) == [image_id |-> item.image_id, created_at |-> item.created_at]

\* the key of an item in UserIndex, as LastEvaluatedKey of a query on it
\* gives it
UserIndexKey(item) ==
    [image_id |-> item.image_id, created_at |-> item.created_at,
     user_id |-> item.user_id]

\* the order in which a scan of the table visits the items
ScanBefore(i, j) ==
    \/ i.image_id < j.image_id
    \/ i.image_id = j.image_id /\ i.created_at < j.created_at

\* the order of a query on UserIndex with ScanIndexForward=False: created_at
\* descending
UserIndexBefore(i, j) ==
    \/ i.created_at > j.created_at
    \/ i.created_at = j.created_at /\ i.image_id > j.image_id

\* the items of S as the sequence a scan visits
RECURSIVE ScanOrdered(_)
ScanOrdered(S) ==
    IF S = {} THEN <<>>
    ELSE LET first == CHOOSE i \in S : \A j \in S \ {i} : ScanBefore(i, j)
         IN  <<first>> \o ScanOrdered(S \ {first})

\* the items of S as the sequence a query on UserIndex visits
RECURSIVE UserIndexOrdered(_)
UserIndexOrdered(S) ==
    IF S = {} THEN <<>>
    ELSE LET first == CHOOSE i \in S : \A j \in S \ {i} : UserIndexBefore(i, j)
         IN  <<first>> \o UserIndexOrdered(S \ {first})

\* sub in s (Python), which is what Attr('tags').contains(sub) tests on a
\* string attribute
Contains(s, sub) ==
    \E k \in 0..(Len(s) - Len(sub)) : SubSeq(s, k + 1, k + Len(sub)) = sub

EmptyPage == [items |-> <<>>, last_evaluated_key |-> None]

\* One page of a Scan or Query over the items ordered, whose keys are keys
\* (position by position): at most Limit items after ExclusiveStartKey are
\* evaluated, the filter (the items of keep pass it) is applied to those, and
\* LastEvaluatedKey is the key of the last item evaluated when the limit
\* stopped the read.
ReadPage(ordered, keys, limit, start, keep) ==
    LET from == IF IsNone(start) THEN 1
                ELSE IF \E k \in 1..Len(ordered) : keys[k] = Val(start)
                     THEN 1 + CHOOSE k \in 1..Len(ordered) : keys[k] = Val(start)
                     ELSE Len(ordered) + 1
        to == IF from + limit - 1 <= Len(ordered) THEN from + limit - 1
              ELSE Len(ordered)
        evaluated == SubSeq(ordered, from, to)
        Kept(item) == item \in keep
    IN  [items |-> SelectSeq(evaluated, Kept),
         last_evaluated_key |->
            IF Len(evaluated) = limit THEN Some(keys[to]) ELSE None]

\* Python truthiness of a decoded JSON value
Truthy(json) ==
    CASE json.type = "null" -> FALSE
      [] json.type = "number" -> json.v # 0
      [] json.type = "dict" -> DOMAIN json.v # {}

\* 'if last_evaluated_key:' -- the ExclusiveStartKey the client hands to the
\* store, None when it hands none
StartKey(last_evaluated_key) ==
    IF ~IsNone(last_evaluated_key) /\ Truthy(Val(last_evaluated_key))
    THEN Some(Val(last_evaluated_key).v)
    ELSE None

\* DynamoDBClient.list_images: last_evaluated_key is None or a decoded JSON
\* value.  The store rejects (ClientError) a start key that is not a primary
\* key of the table, and the client then returns the empty page.
list_images_db(table, limit, last_evaluated_key, user_id, tags, ok) ==
    LET start == StartKey(last_evaluated_key)
        Keep(item) ==
            /\ (~IsNone(user_id) /\ Val(user_id) # <<>>)
                  => Get(item, "user_id", None) = Val(user_id)
            /\ (~IsNone(tags) /\ Val(tags) # <<>>)
                  => /\ "tags" \in DOMAIN item
                     /\ Contains(item.tags, Val(tags))
    IN  IF ~ok THEN EmptyPage
        ELSE IF ~IsNone(start)
                /\ DOMAIN Val(start) # {"image_id", "created_at"}
        THEN EmptyPage
        ELSE LET ordered == ScanOrdered(table) IN
             ReadPage(ordered, [k \in 1..Len(ordered) |-> TableKey(ordered[k])],
                      limit, start, {i \in table : Keep(i)})

\* DynamoDBClient.query_images_by_user: the store rejects a start key that
\* is not a key of UserIndex for this user_id
query_images_by_user(table, user_id, limit, last_evaluated_key, ok) ==
    LET start == StartKey(last_evaluated_key)
        indexed == {i \in table : "user_id" \in DOMAIN i /\ i.user_id = user_id}
    IN  IF ~ok THEN EmptyPage
        ELSE IF ~IsNone(start)
                /\ \/ DOMAIN Val(start) # {"image_id", "created_at", "user_id"}
                   \/ Val(start).user_id # user_id
        THEN EmptyPage
        ELSE LET ordered == UserIndexOrdered(indexed) IN
             ReadPage(ordered,
                      [k \in 1..Len(ordered) |-> UserIndexKey(ordered[k])],
                      limit, start, indexed)

\* one entry of an invocation's log of storage calls
Call(name, arg, ok) == [call |-> name, arg |-> arg, ok |-> ok]


-----------------------------------------------------------------------------
(* Inputs *)

U1 == <<"u", "1">>
U2 == <<"u", "2">>
Users == {U1, U2}

Image(format, width, height) ==
    Some([format |-> Some(format), width |-> width, height |-> height])

GoodJpeg    == [size |-> 50000, image |-> Image("JPEG", 200, 200)]
GoodPng     == [size |-> 50000, image |-> Image("PNG", 50, 4000)]
Tiny        == [size |-> 10, image |-> None]
Huge        == [size |-> 10485761, image |-> Image("JPEG", 200, 200)]
Undecodable == [size |-> 50000, image |-> None]
Narrow      == [size |-> 50000, image |-> Image("PNG", 49, 200)]
Tall        == [size |-> 50000, image |-> Image("JPEG", 200, 4001)]

NameJpg   == <<"a", ".", "j", "p", "g">>
NamePNG   == <<"a", ".", "P", "N", "G">>
NameTxt   == <<"a", ".", "t", "x", "t">>
NameEmpty == <<>>

Request(title, description, tags, user_id) ==
    [title |-> title, description |-> description, tags |-> tags,
     user_id |-> user_id]

Upload(file_content, filename, upload_request) ==
    [file_content |-> file_content, filename |-> filename,
     upload_request |-> upload_request]

ReqAB   == Request(Some(<<"a">>), Some(<<"b">>), Some(<< <<"a">>, <<"b">> >>), U1)
ReqNone == Request(None, None, None, U2)

\* the uploads the model draws from: two that pass every check, and one for
\* each check that an ImageUploadRequest can fail
UploadInputs ==
    { u \in
        { Upload(GoodJpeg, NameJpg, ReqAB),
          Upload(GoodPng, NamePNG, ReqNone),
          Upload(GoodJpeg, NameTxt, ReqAB),
          Upload(GoodJpeg, NameEmpty, ReqAB),
          Upload(Tiny, NameJpg, ReqAB),
          Upload(Huge, NameJpg, ReqAB),
          Upload(Undecodable, NameJpg, ReqAB),
          Upload(Narrow, NameJpg, ReqAB),
          Upload(Tall, NameJpg, ReqAB),
          Upload(GoodJpeg, NameJpg, Request(Some(<<" ">>), None, None, U1)),
          Upload(GoodJpeg, NameJpg,
                 Request(None, None, Some(<< <<"a">>, <<"a", "!">> >>), U1)),
          Upload(GoodJpeg, NameJpg, Request(None, None, None, <<" ">>)),
          Upload(GoodJpeg, NameJpg, Request(None, None, None, <<"u", "!">>)) }
      : ImageUploadRequestOK(u.upload_request) }

-----------------------------------------------------------------------------
(* src/src/services/image_service.py *)

Failure(error) == [success |-> FALSE, error |-> error]

\* a variant of UploadValidate that checks the metadata before the file
UploadValidate_MetadataFirst(file_content, filename, upload_request) ==
    IF ~validate_title(upload_request.title).valid
    THEN validate_title(upload_request.title)
    ELSE IF ~validate_description(upload_request.description).valid
    THEN validate_description(upload_request.description)
    ELSE IF ~validate_tags(upload_request.tags).valid
    THEN validate_tags(upload_request.tags)
    ELSE IF ~validate_user_id(upload_request.user_id).valid
    THEN validate_user_id(upload_request.user_id)
    ELSE IF ~validate_file_extension(filename)
    THEN [valid |-> FALSE,
          error |-> "Invalid file extension. Allowed: jpg, jpeg, png, gif, webp"]
    ELSE IF ~validate_file_size(file_content.size)
    THEN [valid |-> FALSE, error |-> "File size must be between 1KB and 10MB"]
    ELSE validate_image_content(file_content)

\* upload_image, the checks before anything is stored: the verdict of the
\* first check that fails, else the decoded width, height and format
UploadValidate(file_content, filename, upload_request) ==
    IF ~validate_file_extension(filename)
    THEN [valid |-> FALSE,
          error |-> "Invalid file extension. Allowed: jpg, jpeg, png, gif, webp"]
    ELSE IF ~validate_file_size(file_content.size)
    THEN [valid |-> FALSE, error |-> "File size must be between 1KB and 10MB"]
    ELSE IF ~validate_image_content(file_content).valid
    THEN validate_image_content(file_content)
    ELSE IF ~validate_title(upload_request.title).valid
    THEN validate_title(upload_request.title)
    ELSE IF ~validate_description(upload_request.description).valid
    THEN validate_description(upload_request.description)
    ELSE IF ~validate_tags(upload_request.tags).valid
    THEN validate_tags(upload_request.tags)
    ELSE IF ~validate_user_id(upload_request.user_id).valid
    THEN validate_user_id(upload_request.user_id)
    ELSE validate_image_content(file_content)

\* upload_image: model_dump() with the tag list joined into one string
DynamoData(image_metadata) ==
    [image_metadata EXCEPT
        !.tags = IF ~IsNone(image_metadata.tags) /\ Val(image_metadata.tags) # <<>>
                 THEN JoinComma(Val(image_metadata.tags))
                 ELSE <<>>]

NoLoc == [op |-> "none"]

NoResp == [op |-> "none"]

\* an invocation returns result
Response(op, args, result, calls) ==
    [op |-> op, args |-> args, result |-> result, calls |-> calls]

\* the invocation in slot p returns result
Complete(p, op, args, result, calls) ==
    /\ resp' = Response(op, args, result, calls)
    /\ pc' = [pc EXCEPT ![p] = "idle"]
    /\ loc' = [loc EXCEPT ![p] = NoLoc]

\* slots are interchangeable: a new invocation takes the first idle one
FreeSlot(p) ==
    /\ resp = NoResp
    /\ pc[p] = "idle"
    /\ \A q \in Procs : pc[q] = "idle" => p <= q

\* a variant of UploadRejected that has already written the blob when the
\* check fails
UploadRejected_AfterPut(p, input, error) ==
    /\ Complete(p, "upload", input, Failure(error),
                <<Call("s3.put", input.filename, TRUE)>>)
    /\ s3' = S3Put(s3, input.filename, TRUE)
    /\ UNCHANGED <<db, nextId, sent>>

\* upload_image when a check fails: it returns the failure at once
UploadRejected(p, input, error) ==
    /\ Complete(p, "upload", input, Failure(error), <<>>)
    /\ UNCHANGED <<s3, db, nextId, sent>>

\* a variant of UploadPut that ignores what the blob put reports
UploadPut_Unchecked(p, input, image_metadata, ok) ==
    /\ s3' = S3Put(s3, image_metadata.s3_key, ok)
    /\ pc' = [pc EXCEPT ![p] = "up_db"]
    /\ loc' = [loc EXCEPT ![p] =
                 [op |-> "upload", args |-> input,
                  image_metadata |-> image_metadata,
                  calls |-> <<Call("s3.put", image_metadata.s3_key, ok)>>]]
    /\ resp' = resp

\* upload_image: the blob-store put; it goes on to the metadata put when the
\* blob put succeeded and returns the failure otherwise
UploadPut(p, input, image_metadata, ok) ==
    LET calls == <<Call("s3.put", image_metadata.s3_key, ok)>> IN
    /\ s3' = S3Put(s3, image_metadata.s3_key, ok)
    /\ IF ok
       THEN /\ pc' = [pc EXCEPT ![p] = "up_db"]
            /\ loc' = [loc EXCEPT ![p] =
                         [op |-> "upload", args |-> input,
                          image_metadata |-> image_metadata,
                          calls |-> calls]]
            /\ resp' = resp
       ELSE Complete(p, "upload", input,
                     Failure("Failed to upload image to storage"), calls)

\* upload_image from create_new to the blob-store put
UploadAccepted(p, input, v, now, date_now, ok) ==
    /\ nextId < MaxUploads
    /\ nextId' = nextId + 1
    /\ UNCHANGED <<db, sent>>
    /\ UploadPut(p, input,
                 create_new(input.upload_request, input.filename,
                            input.file_content.size, ContentType(v.format),
                            v.width, v.height, v.format, nextId + 1, now,
                            date_now),
                 ok)

\* upload_image up to and including the blob-store put
UploadCall(p, input, now, date_now, ok) ==
    /\ FreeSlot(p)
    /\ LET v == UploadValidate(input.file_content, input.filename,
                               input.upload_request)
       IN  IF ~v.valid
           THEN UploadRejected(p, input, v.error)
           ELSE UploadAccepted(p, input, v, now, date_now, ok)

\* upload_image: the metadata-store put; success is returned when it
\* succeeded, and the rollback follows when it failed
UploadDbPut(p, ok) ==
    /\ resp = NoResp
    /\ pc[p] = "up_db"
    /\ LET dynamo_data == DynamoData(loc[p].image_metadata)
           calls == Append(loc[p].calls, Call("db.put", dynamo_data.image_id, ok))
       IN
       /\ db' = DbPut(db, dynamo_data, ok)
       /\ UNCHANGED <<s3, nextId>>
       /\ IF ok
          THEN /\ sent' = sent \cup {[image_id |-> dynamo_data.image_id,
                                      input |-> loc[p].args]}
               /\ Complete(p, "upload", loc[p].args,
                           [success |-> TRUE,
                            image_id |-> dynamo_data.image_id,
                            message |-> "Image uploaded successfully"],
                           calls)
          ELSE /\ sent' = sent
               /\ pc' = [pc EXCEPT ![p] = "up_rollback"]
               /\ loc' = [loc EXCEPT ![p].calls = calls]
               /\ resp' = resp

\* a variant of UploadRollback that leaves the blob where it is
UploadRollback_NoDelete(p, ok) ==
    /\ resp = NoResp
    /\ pc[p] = "up_rollback"
    /\ UNCHANGED <<s3, db, nextId, sent>>
    /\ Complete(p, "upload", loc[p].args,
                Failure("Failed to store image metadata"), loc[p].calls)

\* upload_image: the rollback of the blob after a failed metadata put
UploadRollback(p, ok) ==
    /\ resp = NoResp
    /\ pc[p] = "up_rollback"
    /\ s3' = S3Delete(s3, loc[p].image_metadata.s3_key, ok)
    /\ UNCHANGED <<db, nextId, sent>>
    /\ Complete(p, "upload", loc[p].args,
                Failure("Failed to store image metadata"),
                Append(loc[p].calls,
                       Call("s3.delete", loc[p].image_metadata.s3_key, ok)))

\* S3Client.generate_presigned_url: the signed URL of key, None when the
\* signing raised ClientError
generate_presigned_url(key, expiration, ok) ==
    IF ok THEN Some([signed_key |-> key, expires_in |-> expiration]) ELSE None

DEFAULT_EXPIRATION == 3600

\* _convert_dynamo_to_api_format: a non-empty tags string becomes the list of
\* its stripped non-empty comma-separated parts; anything else is left as it
\* is.  The value is tagged with its Python type.
ConvertTags(tags) ==
    IF tags # <<>>
    THEN IF Strip(tags) # <<>>
         THEN [type |-> "list",
               v |-> LET parts == SplitComma(tags)
                         F[i \in 0..Len(parts)] ==
                             IF i = 0 THEN <<>>
                             ELSE IF Strip(parts[i]) # <<>>
                                  THEN Append(F[i - 1], Strip(parts[i]))
                                  ELSE F[i - 1]
                     IN  F[Len(parts)]]
         ELSE [type |-> "list", v |-> <<>>]
    ELSE [type |-> "str", v |-> tags]

_convert_dynamo_to_api_format(dynamo_data) ==
    IF "tags" \in DOMAIN dynamo_data
    THEN [dynamo_data EXCEPT !.tags = ConvertTags(dynamo_data.tags)]
    ELSE dynamo_data

\* ImageResponse(**api_data) validates: every field without a default is
\* given, and tags is a list
ImageResponseOK(api_data) ==
    /\ ImageResponseFields \subseteq DOMAIN api_data
    /\ api_data.tags.type = "list"

\* a variant of ImageResponse that keeps the fields the class does not declare
ImageResponse_KeepsExtra(api_data, download_url) ==
    [f \in DOMAIN api_data \cup {"download_url", "thumbnail_url"} |->
        IF f = "download_url" THEN download_url
        ELSE IF f = "thumbnail_url" THEN None
        ELSE IF f = "tags" THEN api_data.tags.v
        ELSE api_data[f]]

\* ImageResponse(**api_data).model_dump(), download_url set afterwards
ImageResponse(api_data, download_url) ==
    [f \in ImageResponseFields \cup {"download_url", "thumbnail_url"} |->
        IF f = "download_url" THEN download_url
        ELSE IF f = "thumbnail_url" THEN None
        ELSE IF f = "tags" THEN api_data.tags.v
        ELSE api_data[f]]

\* get_image after the metadata read; an exception raised on the way gives
\* 'Internal server error'
GetImageResult(metadata, include_download_url, presign_ok) ==
    IF IsNone(metadata) THEN Failure("Image not found")
    ELSE IF Get(Val(metadata), "is_deleted", FALSE)
    THEN Failure("Image not found")
    ELSE LET api_metadata == _convert_dynamo_to_api_format(Val(metadata)) IN
         IF ~ImageResponseOK(api_metadata)
         THEN Failure("Internal server error")
         ELSE IF include_download_url /\ "s3_key" \notin DOMAIN Val(metadata)
         THEN Failure("Internal server error")
         ELSE [success |-> TRUE,
               image |-> ImageResponse(api_metadata,
                            IF include_download_url
                            THEN generate_presigned_url(Val(metadata).s3_key,
                                     DEFAULT_EXPIRATION, presign_ok)
                            ELSE None)]

\* get_image
GetImage(image_id, include_download_url, read_ok, presign_ok) ==
    /\ resp = NoResp
    /\ LET metadata == get_image_metadata_by_id(db, image_id, read_ok) IN
       resp' = Response("get",
                [image_id |-> image_id,
                 include_download_url |-> include_download_url],
                GetImageResult(metadata, include_download_url, presign_ok),
                <<Call("db.query", image_id, read_ok)>>)
    /\ UNCHANGED <<s3, db, nextId, sent, pc, loc>>

\* "not found" in error.lower(), over the messages the service returns
HasNotFound(error) == error \in {"Image not found"}
\* "unauthorized" in error.lower()
HasUnauthorized(error) == error \in {"Unauthorized to delete this image"}
\* "already deleted" in error.lower()
HasAlreadyDeleted(error) == error \in {"Image already deleted"}

Http(status, body) == [status |-> status, body |-> body]

\* main.get_image_download_url after the call of get_image; a KeyError on
\* image_data["s3_key"] is caught by 'except Exception' and answered with 500
DownloadResponse(image_id, result, expires_in, presign_ok) ==
    IF ~result.success
    THEN IF HasNotFound(result.error)
         THEN Http(404, result.error)
         ELSE Http(400, result.error)
    ELSE LET image_data == result.image IN
         IF "s3_key" \notin DOMAIN image_data
         THEN Http(500, "Internal server error")
         ELSE LET download_url ==
                     generate_presigned_url(image_data.s3_key, expires_in,
                                            presign_ok)
              IN  IF IsNone(download_url)
                  THEN Http(500, "Failed to generate download URL")
                  ELSE Http(200, [image_id |-> image_id,
                                  download_url |-> Val(download_url),
                                  expires_in |-> expires_in,
                                  content_type |-> image_data.content_type,
                                  file_size |-> image_data.file_size])

\* GET /images/{image_id}/download
GetImageDownloadUrl(image_id, expires_in, read_ok, presign_ok) ==
    /\ resp = NoResp
    /\ LET metadata == get_image_metadata_by_id(db, image_id, read_ok)
           result == GetImageResult(metadata, FALSE, TRUE)
       IN
       resp' = Response("download",
                [image_id |-> image_id, expires_in |-> expires_in,
                 presign_ok |-> presign_ok],
                DownloadResponse(image_id, result, expires_in, presign_ok),
                <<Call("db.query", image_id, read_ok)>>)
    /\ UNCHANGED <<s3, db, nextId, sent, pc, loc>>

\* a variant of DeleteCheck without the check of is_deleted
DeleteCheck_NoDeletedCheck(metadata, user_id) ==
    IF IsNone(metadata) THEN Some(Failure("Image not found"))
    ELSE IF Get(Val(metadata), "user_id", None) # user_id
    THEN Some(Failure("Unauthorized to delete this image"))
    ELSE None

\* a variant of DeleteCheck that checks is_deleted before the owner
DeleteCheck_DeletedFirst(metadata, user_id) ==
    IF IsNone(metadata) THEN Some(Failure("Image not found"))
    ELSE IF Get(Val(metadata), "is_deleted", FALSE)
    THEN Some(Failure("Image already deleted"))
    ELSE IF Get(Val(metadata), "user_id", None) # user_id
    THEN Some(Failure("Unauthorized to delete this image"))
    ELSE None

\* delete_image after the metadata read: the failure it returns at once,
\* None when it goes on to the update
DeleteCheck(metadata, user_id) ==
    IF IsNone(metadata) THEN Some(Failure("Image not found"))
    ELSE IF Get(Val(metadata), "user_id", None) # user_id
    THEN Some(Failure("Unauthorized to delete this image"))
    ELSE IF Get(Val(metadata), "is_deleted", FALSE)
    THEN Some(Failure("Image already deleted"))
    ELSE None

\* a variant of DeleteUpdates that also clears the title
DeleteUpdates_ClearsTitle(now) ==
    [is_deleted |-> TRUE, updated_at |-> Some(now), title |-> None]

\* delete_image: the attributes the soft delete sets
DeleteUpdates(now) == [is_deleted |-> TRUE, updated_at |-> Some(now)]

\* delete_image: what it returns after the update
DeleteResult(image_id, ok) ==
    IF ok
    THEN [success |-> TRUE, message |-> "Image deleted successfully",
          image_id |-> image_id]
    ELSE Failure("Failed to delete image")

\* handlers/delete_image.py permanently_delete_image after the call of
\* delete_image
PermanentResponse(image_id, result) ==
    IF ~result.success /\ ~HasAlreadyDeleted(result.error)
    THEN IF HasNotFound(result.error) THEN Http(404, result.error)
         ELSE IF HasUnauthorized(result.error) THEN Http(403, result.error)
         ELSE Http(400, result.error)
    ELSE Http(200, [message |-> "Image marked for permanent deletion",
                    image_id |-> image_id])

\* a variant of DeleteHttpResponse that answers 404 for an already deleted
\* record and 410 for an absent one
DeleteHttpResponse_SwapsGoneAndNotFound(image_id, result) ==
    IF ~result.success
    THEN IF HasUnauthorized(result.error) THEN Http(403, result.error)
         ELSE IF HasAlreadyDeleted(result.error) THEN Http(404, result.error)
         ELSE IF HasNotFound(result.error) THEN Http(410, result.error)
         ELSE Http(400, result.error)
    ELSE Http(200, [message |-> result.message, image_id |-> result.image_id])

\* main.delete_image (DELETE /images/{id}) after the call of delete_image
DeleteHttpResponse(image_id, result) ==
    IF ~result.success
    THEN IF HasNotFound(result.error) THEN Http(404, result.error)
         ELSE IF HasUnauthorized(result.error) THEN Http(403, result.error)
         ELSE IF HasAlreadyDeleted(result.error) THEN Http(410, result.error)
         ELSE Http(400, result.error)
    ELSE Http(200, [message |-> result.message, image_id |-> result.image_id])

\* what the entry point makes of delete_image's result: the service method
\* returns it, DELETE /images/{id} answers with DeleteHttpResponse and the
\* permanent-delete handler with PermanentResponse
DeleteOutcome(entry, image_id, result) ==
    IF entry.handler = "permanent" THEN PermanentResponse(image_id, result)
    ELSE IF entry.handler = "endpoint" THEN DeleteHttpResponse(image_id, result)
    ELSE result

\* delete_image up to the update (entry "soft"), or DELETE /images/{id}
\* (entry "endpoint") or permanently_delete_image (entry "permanent") up to
\* the update of the delete_image it calls
\* confirmation: str = Header(...): a request without the header is answered
\* with 422 by the framework and the handler is not entered
DeleteCall(p, entry, image_id, user_id, ok) ==
    /\ FreeSlot(p)
    /\ UNCHANGED <<s3, db, nextId, sent>>
    /\ LET args == [entry |-> entry, image_id |-> image_id,
                    user_id |-> user_id]
       IN
       IF entry.handler = "permanent"
          /\ "confirmation" \notin DOMAIN entry
       THEN Complete(p, "delete", args, Http(422, "confirmation"), <<>>)
       ELSE IF entry.handler = "permanent"
          /\ entry.confirmation # "PERMANENT_DELETE"
       THEN Complete(p, "delete", args,
                     Http(400, "Missing or invalid confirmation header"), <<>>)
       ELSE LET metadata == get_image_metadata_by_id(db, image_id, ok)
                calls == <<Call("db.query", image_id, ok)>>
                early == DeleteCheck(metadata, user_id)
            IN
            IF ~IsNone(early)
            THEN Complete(p, "delete", args,
                          DeleteOutcome(entry, image_id, Val(early)), calls)
            ELSE /\ pc' = [pc EXCEPT ![p] = "del_update"]
                 /\ loc' = [loc EXCEPT ![p] =
                              [op |-> "delete", args |-> args,
                               metadata |-> Val(metadata), calls |-> calls]]
                 /\ resp' = resp

\* a variant of DeleteUpdate that also removes the blob when the update
\* succeeded
DeleteUpdate_PurgesBlob(p, now, ok) ==
    /\ resp = NoResp
    /\ pc[p] = "del_update"
    /\ LET image_id == loc[p].args.image_id
           created_at == loc[p].metadata.created_at
       IN
       /\ db' = DbUpdate(db, image_id, created_at, DeleteUpdates(now), ok)
       /\ s3' = S3Delete(s3, loc[p].metadata.s3_key, ok)
       /\ Complete(p, "delete", loc[p].args,
                   DeleteOutcome(loc[p].args.entry, image_id,
                                 DeleteResult(image_id, ok)),
                   Append(loc[p].calls,
                          Call("db.update", <<image_id, created_at>>, ok)))
    /\ UNCHANGED <<nextId, sent>>

\* a variant of DeleteUpdate that marks the record live again when the
\* update failed
DeleteUpdate_Reverts(p, now, ok) ==
    /\ resp = NoResp
    /\ pc[p] = "del_update"
    /\ LET image_id == loc[p].args.image_id
           created_at == loc[p].metadata.created_at
       IN
       /\ db' = IF ok
                THEN DbUpdate(db, image_id, created_at, DeleteUpdates(now), TRUE)
                ELSE DbUpdate(db, image_id, created_at,
                              [is_deleted |-> FALSE], TRUE)
       /\ Complete(p, "delete", loc[p].args,
                   DeleteOutcome(loc[p].args.entry, image_id,
                                 DeleteResult(image_id, ok)),
                   Append(loc[p].calls,
                          Call("db.update", <<image_id, created_at>>, ok)))
    /\ UNCHANGED <<s3, nextId, sent>>

\* delete_image: the soft-delete update
DeleteUpdate(p, now, ok) ==
    /\ resp = NoResp
    /\ pc[p] = "del_update"
    /\ LET image_id == loc[p].args.image_id
           created_at == loc[p].metadata.created_at
       IN
       /\ db' = DbUpdate(db, image_id, created_at, DeleteUpdates(now), ok)
       /\ Complete(p, "delete", loc[p].args,
                   DeleteOutcome(loc[p].args.entry, image_id,
                                 DeleteResult(image_id, ok)),
                   Append(loc[p].calls,
                          Call("db.update", <<image_id, created_at>>, ok)))
    /\ UNCHANGED <<s3, nextId, sent>>

\* a variant of EncodeToken that keeps only the partition key
EncodeToken_DropsSortKey(key) ==
    [kind |-> "b64json",
     json |-> [type |-> "dict", v |-> [image_id |-> key.image_id]]]

\* base64.b64encode(json.dumps(key).encode()).decode(): a page token is
\* the empty string, a string that is not base64 of JSON, or base64 of the
\* JSON text of a value
EncodeToken(key) == [kind |-> "b64json", json |-> [type |-> "dict", v |-> key]]

EmptyToken == [kind |-> "empty"]
GarbageToken == [kind |-> "garbage"]

\* a variant of DecodeToken that reads a string it cannot decode as JSON null
DecodeToken_Lenient(page_token) ==
    IF page_token.kind = "b64json" THEN Some(page_token.json)
    ELSE Some([type |-> "null"])

\* json.loads(base64.b64decode(page_token).decode()): None when it raises
DecodeToken(page_token) ==
    IF page_token.kind = "b64json" THEN Some(page_token.json) ELSE None

\* list_images: the responses for the items of the page that are not
\* deleted; presign_fail holds the positions whose presigning fails
RECURSIVE ListResponses(_, _, _)
ListResponses(active_images, k, presign_fail) ==
    IF active_images = <<>> THEN <<>>
    ELSE LET img == Head(active_images) IN
         <<ImageResponse(_convert_dynamo_to_api_format(img),
                         generate_presigned_url(img.s3_key, DEFAULT_EXPIRATION,
                                                k \notin presign_fail))>>
         \o ListResponses(Tail(active_images), k + 1, presign_fail)

\* a variant of NotDeleted that keeps every item
NotDeleted_All(img) == TRUE

\* list_images: the filter 'not img.get("is_deleted", False)'
NotDeleted(img) == ~Get(img, "is_deleted", FALSE)

\* a variant of ListResult whose has_more also asks for an image on the page
ListResult_HasMoreNeedsImages(page, presign_fail) ==
    LET active_images == SelectSeq(page.items, NotDeleted) IN
    IF \E k \in 1..Len(active_images) :
          \/ ~ImageResponseOK(_convert_dynamo_to_api_format(active_images[k]))
          \/ "s3_key" \notin DOMAIN active_images[k]
    THEN Failure("Internal server error")
    ELSE LET image_responses == ListResponses(active_images, 1, presign_fail)
         IN  [success |-> TRUE,
              images |-> image_responses,
              total_count |-> Len(image_responses),
              next_page_token |->
                 IF ~IsNone(page.last_evaluated_key)
                 THEN Some(EncodeToken(Val(page.last_evaluated_key)))
                 ELSE None,
              has_more |-> /\ ~IsNone(page.last_evaluated_key)
                           /\ image_responses # <<>>]

\* list_images after the page was fetched
ListResult(page, presign_fail) ==
    LET active_images == SelectSeq(page.items, NotDeleted) IN
    IF \E k \in 1..Len(active_images) :
          \/ ~ImageResponseOK(_convert_dynamo_to_api_format(active_images[k]))
          \/ "s3_key" \notin DOMAIN active_images[k]
    THEN Failure("Internal server error")
    ELSE LET image_responses == ListResponses(active_images, 1, presign_fail)
         IN  [success |-> TRUE,
              images |-> image_responses,
              total_count |-> Len(image_responses),
              next_page_token |->
                 IF ~IsNone(page.last_evaluated_key)
                 THEN Some(EncodeToken(Val(page.last_evaluated_key)))
                 ELSE None,
              has_more |-> ~IsNone(page.last_evaluated_key)]

\* list_images: the page it fetches, by the owner index when user_id is
\* given and by a filtered scan otherwise
ListFetch(table, limit, last_evaluated_key, user_id, tags, ok) ==
    IF ~IsNone(user_id) /\ Val(user_id) # <<>>
    THEN query_images_by_user(table, Val(user_id), limit, last_evaluated_key, ok)
    ELSE list_images_db(table, limit, last_evaluated_key, user_id, tags, ok)

ListArgs(limit, page_token, user_id, tags) ==
    [limit |-> limit, page_token |-> page_token, user_id |-> user_id,
     tags |-> tags]

\* list_images on the table as it is: what it returns and the storage calls
\* it makes.  The log entry of the store call holds the limit and the start
\* key handed to the store and the last key the store returned.
ListService(table, limit, page_token, user_id, tags, ok, presign_fail) ==
    LET given == ~IsNone(page_token) /\ Val(page_token) # EmptyToken IN
    IF given /\ IsNone(DecodeToken(Val(page_token)))
    THEN [result |-> Failure("Invalid page token"), calls |-> <<>>]
    ELSE LET last_evaluated_key ==
                 IF given THEN DecodeToken(Val(page_token)) ELSE None
             page == ListFetch(table, limit, last_evaluated_key, user_id,
                               tags, ok)
         IN  [result |-> ListResult(page, presign_fail),
              calls |-> <<Call(IF ~IsNone(user_id) /\ Val(user_id) # <<>>
                               THEN "db.query_by_user" ELSE "db.scan",
                               [limit |-> limit,
                                start |-> StartKey(last_evaluated_key),
                                returned |-> page.last_evaluated_key],
                               ok)>>]

\* list_images called as the service method, whatever the caller did before
ListRespond(limit, page_token, user_id, tags, ok, presign_fail) ==
    /\ UNCHANGED <<s3, db, nextId, sent, pc, loc>>
    /\ LET r == ListService(db, limit, page_token, user_id, tags, ok,
                            presign_fail)
       IN  resp' = Response("list", ListArgs(limit, page_token, user_id, tags),
                            r.result, r.calls)

\* list_images
ListImages(limit, page_token, user_id, tags, ok, presign_fail) ==
    /\ resp = NoResp
    /\ ListRespond(limit, page_token, user_id, tags, ok, presign_fail)

\* list_images called again by the caller that has just received a page with
\* a next_page_token: the same arguments, with that token as page_token
ListNextPage(ok, presign_fail) ==
    /\ resp.op = "list"
    /\ resp.result.success
    /\ ~IsNone(resp.result.next_page_token)
    /\ ListRespond(resp.args.limit, resp.result.next_page_token,
                   resp.args.user_id, resp.args.tags, ok, presign_fail)

-----------------------------------------------------------------------------
(* src/src/main.py: the list endpoints *)

MIN_LIMIT == 1
MAX_LIMIT == 100
DEFAULT_LIMIT == 20

\* a variant of QueryLimit without the range
QueryLimit_NoRange(limit) ==
    IF IsNone(limit) THEN [valid |-> TRUE, value |-> 20]
    ELSE [valid |-> TRUE, value |-> Val(limit)]

\* limit: int = Query(default=20, ge=1, le=100): the framework puts the
\* default for an absent parameter and answers 422 for a value out of range
QueryLimit(limit) ==
    IF IsNone(limit) THEN [valid |-> TRUE, value |-> 20]
    ELSE IF Val(limit) < 1 \/ Val(limit) > 100 THEN [valid |-> FALSE]
    ELSE [valid |-> TRUE, value |-> Val(limit)]

\* QueryValidator.validate_limit
validate_limit(limit) ==
    IF IsNone(limit) THEN [valid |-> TRUE, value |-> DEFAULT_LIMIT]
    ELSE IF Val(limit) < MIN_LIMIT
    THEN [valid |-> FALSE, error |-> "Limit must be at least 1"]
    ELSE IF Val(limit) > MAX_LIMIT
    THEN [valid |-> FALSE, error |-> "Limit cannot exceed 100"]
    ELSE [valid |-> TRUE, value |-> Val(limit)]

\* QueryValidator.validate_last_evaluated_key: a key that is given must be a
\* string with a character that is not white space
validate_last_evaluated_key(key) ==
    IF IsNone(key) THEN [valid |-> TRUE, value |-> None]
    ELSE IF Val(key) # EmptyToken THEN [valid |-> TRUE, value |-> key]
    ELSE [valid |-> FALSE, error |-> "Invalid pagination key"]

\* what the three endpoints make of list_images' result
ListHttpResponse(result) ==
    IF ~result.success THEN Http(400, result.error)
    ELSE Http(200, [images |-> result.images,
                    total_count |-> result.total_count,
                    next_page_token |-> result.next_page_token,
                    has_more |-> result.has_more])

ListHttpArgs(entry, limit, page_token, user_id, tags) ==
    [entry |-> entry, limit |-> limit, page_token |-> page_token,
     user_id |-> user_id, tags |-> tags]

\* GET /images (entry "images"), GET /users/{user_id}/images (entry "users")
\* and GET /tags/{tag}/images (entry "tags"): the answer and the storage
\* calls made
ListEndpointResponse(table, a, ok, presign_fail) ==
    LET q == QueryLimit(a.limit) IN
    IF ~q.valid THEN [result |-> Http(422, "limit"), calls |-> <<>>]
    ELSE IF a.entry = "images"
    THEN LET limit_validation == validate_limit(Some(q.value))
             token_validation == validate_last_evaluated_key(a.page_token)
         IN  IF ~limit_validation.valid
             THEN [result |-> Http(400, limit_validation.error), calls |-> <<>>]
             ELSE IF ~token_validation.valid
             THEN [result |-> Http(400, token_validation.error), calls |-> <<>>]
             ELSE LET r == ListService(table, limit_validation.value,
                                       token_validation.value, a.user_id,
                                       a.tags, ok, presign_fail)
                  IN  [result |-> ListHttpResponse(r.result), calls |-> r.calls]
    ELSE LET r == ListService(table, q.value, a.page_token,
                              IF a.entry = "users" THEN a.user_id ELSE None,
                              IF a.entry = "tags" THEN a.tags ELSE None,
                              ok, presign_fail)
         IN  [result |-> ListHttpResponse(r.result), calls |-> r.calls]

\* a request to one of the list endpoints
ListEndpoint(a, ok, presign_fail) ==
    /\ resp = NoResp
    /\ UNCHANGED <<s3, db, nextId, sent, pc, loc>>
    /\ LET r == ListEndpointResponse(db, a, ok, presign_fail) IN
       resp' = Response("list_http", a, r.result, r.calls)

-----------------------------------------------------------------------------
(* src/src/main.py: POST /images *)

\* the multipart form of POST /images; content_type is the declared type of
\* the file part
UploadForm(content_type, file_content, filename, title, description, tags, user_id) ==
    [content_type |-> content_type, file_content |-> file_content,
     filename |-> filename, title |-> title, description |-> description,
     tags |-> tags, user_id |-> user_id]

\* not file.content_type or not file.content_type.startswith("image/")
IsImageContentType(content_type) ==
    ~IsNone(content_type) /\ Val(content_type).type = "image"

\* parsed_tags: [tag.strip() for tag in tags.split(",") if tag.strip()] when
\* tags is given and not empty, else None
ParseTags(tags) ==
    IF IsNone(tags) \/ Val(tags) = <<>> THEN None
    ELSE LET parts == SplitComma(Val(tags))
             stripped == [i \in 1..Len(parts) |-> Strip(parts[i])]
         IN  Some(SelectSeq(stripped, LAMBDA tag : tag # <<>>))

\* the arguments of ImageUploadRequest(...)
UploadFormRequest(form) ==
    Request(form.title, form.description, ParseTags(form.tags), form.user_id)

\* file.filename or "unknown.jpg"
UploadFormFilename(form) ==
    IF IsNone(form.filename) \/ Val(form.filename) = <<>>
    THEN <<"u", "n", "k", "n", "o", "w", "n", ".", "j", "p", "g">>
    ELSE Val(form.filename)

\* upload_image of main.py after the call of the service
UploadHttpResponse(result) ==
    IF ~result.success THEN Http(400, result.error)
    ELSE Http(200, [message |-> result.message, image_id |-> result.image_id])

\* POST /images answered before the service is called
UploadAnswered(form, result) ==
    /\ resp' = Response("upload_http", form, result, <<>>)
    /\ UNCHANGED <<s3, db, nextId, sent, pc, loc>>

\* POST /images up to and including the blob-store put of the service: a file
\* part that is not declared as an image is answered with 400; the
\* ValidationError that ImageUploadRequest raises is caught by 'except
\* Exception' and answered with 500; else the service is called
UploadEndpoint(p, form, now, date_now, ok) ==
    /\ FreeSlot(p)
    /\ IF ~IsImageContentType(form.content_type)
       THEN UploadAnswered(form, Http(400, "File must be an image"))
       ELSE IF ~ImageUploadRequestOK(UploadFormRequest(form))
       THEN UploadAnswered(form, Http(500, "Internal server error"))
       ELSE UploadCall(p, Upload(form.file_content, UploadFormFilename(form),
                                 UploadFormRequest(form)),
                       now, date_now, ok)

\* the caller takes the response of the invocation that has just returned
Return ==
    /\ resp # NoResp
    /\ resp' = NoResp
    /\ UNCHANGED <<s3, db, nextId, sent, pc, loc>>

-----------------------------------------------------------------------------

Init ==
    /\ s3 = {}
    /\ db = {}
    /\ nextId = 0
    /\ sent = {}
    /\ pc = [p \in Procs |-> "idle"]
    /\ loc = [p \in Procs |-> NoLoc]
    /\ resp = NoResp

\* the ids a caller asks for
ImageIds == 1..MaxUploads

\* the ways delete_image is entered: called as the service method, or by
\* DELETE /images/{id}/permanent with a confirmation header
DeleteEntries ==
    { [handler |-> "soft"],
      [handler |-> "permanent", confirmation |-> "PERMANENT_DELETE"],
      [handler |-> "permanent", confirmation |-> "yes"] }

\* the arguments of list_images: pages of one or two items; no token, a token
\* the service can have issued for an item on the same path, or a string
\* that does not decode; no filter, a tag, an owner, or both
Limits == {1, 2}
ListInputs ==
    {ListArgs(limit, page_token, None, tags) :
        limit \in Limits,
        page_token \in {None} \cup {Some(EncodeToken(TableKey(i))) : i \in db},
        tags \in {None, Some(<<"a">>)}}
    \cup
    {ListArgs(limit, page_token, Some(U1), None) :
        limit \in Limits,
        page_token \in {None} \cup {Some(EncodeToken(UserIndexKey(i))) : i \in db}}
    \cup
    {ListArgs(1, Some(GarbageToken), None, None),
     ListArgs(2, None, Some(U1), Some(<<"a">>))}

\* the readings of datetime.utcnow(): an earlier and a later timestamp
Times == {0, 1}

Next ==
    \/ \E p \in Procs, input \in UploadInputs, now \in Times, ok \in BOOLEAN :
          \E date_now \in {t \in Times : t >= now} :
          UploadCall(p, input, now, date_now, ok)
    \/ \E p \in Procs, ok \in BOOLEAN : UploadDbPut(p, ok)
    \/ \E p \in Procs, ok \in BOOLEAN : UploadRollback(p, ok)
    \/ \E image_id \in ImageIds, include_download_url \in BOOLEAN,
          read_ok \in BOOLEAN, presign_ok \in BOOLEAN :
          GetImage(image_id, include_download_url, read_ok, presign_ok)
    \/ \E image_id \in ImageIds, expires_in \in {60},
          read_ok \in BOOLEAN, presign_ok \in BOOLEAN :
          GetImageDownloadUrl(image_id, expires_in, read_ok, presign_ok)
    \/ \E p \in Procs, entry \in DeleteEntries, image_id \in ImageIds,
          user_id \in Users, ok \in BOOLEAN :
          DeleteCall(p, entry, image_id, user_id, ok)
    \/ \E p \in Procs, now \in Times, ok \in BOOLEAN : DeleteUpdate(p, now, ok)
    \/ \E a \in ListInputs, ok \in BOOLEAN :
          \E presign_fail \in SUBSET (1..a.limit) :
          ListImages(a.limit, a.page_token, a.user_id, a.tags, ok, presign_fail)
    \/ \E ok \in BOOLEAN, presign_fail \in SUBSET Limits :
          ListNextPage(ok, presign_fail)
    \/ Return

Spec == Init /\ [][Next]_vars

\* the invocations one after another: no invocation starts before the one
\* before it has returned, so the second slot is never taken
NextSeq == Next /\ pc'[2] = "idle"

SpecSeq == Init /\ [][NextSeq]_vars

\* a token made by hand: base64 of the JSON text {"x": "y"}
HandmadeToken ==
    [kind |-> "b64json", json |-> [type |-> "dict", v |-> [x |-> "y"]]]

\* the requests to the list endpoints: limits around the range and none; on
\* each endpoint no token, the empty string, a string that does not decode, a
\* token made by hand and a token the service can have issued; an owner
\* together with a tag that the owner's image does not have
ListHttpInputs ==
    {ListHttpArgs("images", limit, None, None, None) :
        limit \in {None, Some(0), Some(1), Some(100), Some(101)}}
    \cup
    {ListHttpArgs("images", Some(1), page_token, None, None) :
        page_token \in {Some(EmptyToken), Some(GarbageToken), Some(HandmadeToken)}
                       \cup {Some(EncodeToken(TableKey(i))) : i \in db}}
    \cup
    {ListHttpArgs("images", Some(2), None, Some(U1), Some(<<"c">>)),
     ListHttpArgs("images", Some(2), None, None, Some(<<"a">>)),
     ListHttpArgs("users", Some(101), None, Some(U1), None),
     ListHttpArgs("tags", Some(101), None, None, Some(<<"a">>))}
    \cup
    {ListHttpArgs("users", Some(1), page_token, Some(U1), None) :
        page_token \in {None, Some(EmptyToken), Some(GarbageToken),
                        Some(HandmadeToken)}
                       \cup {Some(EncodeToken(UserIndexKey(i))) : i \in db}}
    \cup
    {ListHttpArgs("tags", None, page_token, None, Some(<<"a">>)) :
        page_token \in {None, Some(EmptyToken), Some(HandmadeToken)}}

\* the requests to the delete endpoints that Next does not make:
\* DELETE /images/{id}, and DELETE /images/{id}/permanent without the
\* confirmation header
DeleteHttpEntries == { [handler |-> "endpoint"], [handler |-> "permanent"] }

\* the service with the list endpoints and DELETE /images/{id} in front of
\* it, one request at a time
NextHttp ==
    /\ \/ Next
       \/ \E a \in ListHttpInputs, ok \in BOOLEAN :
             \E presign_fail \in SUBSET {1} : ListEndpoint(a, ok, presign_fail)
       \/ \E entry \in DeleteHttpEntries, image_id \in ImageIds,
             user_id \in Users, ok \in BOOLEAN :
             DeleteCall(1, entry, image_id, user_id, ok)
    /\ pc'[2] = "idle"

SpecHttp == Init /\ [][NextHttp]_vars

\* more uploads: a bitmap that Image.open decodes, sent under a .jpg name, and
\* names without a dot
Bitmap      == [size |-> 50000, image |-> Image("BMP", 200, 200)]
NameBarePng == <<"p", "n", "g">>
NameNoDot   == <<"a", "b">>
NameDotEnd  == <<"a", ".">>

\* a string of n characters
Chars(n) == [i \in 1..n |-> "a"]

\* n tags separated by commas
TagList(n) == JoinComma([i \in 1..n |-> <<"a">>])

\* the forms sent to POST /images: one that is in order; a file part that is
\* not an image; title, description, number of tags and length of a tag at
\* the limit and one above it; a tag that is empty after trimming
UploadForms ==
    {UploadForm(Some(ContentType("jpeg")), GoodJpeg, Some(NameJpg),
                Some(<<"a">>), Some(<<"b">>), Some(<<"a", ",", " ", "b">>), U1),
     UploadForm(Some([type |-> "text", subtype |-> "plain"]), GoodJpeg,
                Some(NameJpg), None, None, None, U1),
     UploadForm(None, GoodJpeg, None, None, None, None, U1),
     UploadForm(Some(ContentType("jpeg")), GoodJpeg, None, None, None,
                Some(<<" ", ",", "a">>), U1)}
    \cup
    {UploadForm(Some(ContentType("jpeg")), GoodJpeg, Some(NameJpg),
                Some(Chars(n)), None, None, U1) :
        n \in {MAX_TITLE_LENGTH, MAX_TITLE_LENGTH + 1}}
    \cup
    {UploadForm(Some(ContentType("jpeg")), GoodJpeg, Some(NameJpg),
                None, Some(Chars(n)), None, U1) :
        n \in {MAX_DESCRIPTION_LENGTH, MAX_DESCRIPTION_LENGTH + 1}}
    \cup
    {UploadForm(Some(ContentType("jpeg")), GoodJpeg, Some(NameJpg),
                None, None, Some(TagList(n)), U1) :
        n \in {MAX_TAGS_COUNT, MAX_TAGS_COUNT + 1}}
    \cup
    {UploadForm(Some(ContentType("jpeg")), GoodJpeg, Some(NameJpg),
                None, None, Some(Chars(n)), U1) :
        n \in {MAX_TAG_LENGTH, MAX_TAG_LENGTH + 1}}

\* requests that fail several of the metadata checks
ReqAllBad ==
    Request(Some(<<" ">>), None, Some(<< <<"a", "!">> >>), <<"u", "!">>)
ReqTagsUserBad == Request(None, None, Some(<< <<"a", "!">> >>), <<" ">>)

\* the uploads that fail several checks at once
ManyFailures ==
    { Upload(Tiny, NameTxt, ReqAllBad),
      Upload(Huge, NameEmpty, ReqAB),
      Upload(Tiny, NameJpg, ReqAllBad),
      Upload(Undecodable, NameJpg, ReqAllBad),
      Upload(Narrow, NameJpg, ReqTagsUserBad),
      Upload(GoodJpeg, NameJpg, ReqAllBad),
      Upload(GoodJpeg, NameJpg, ReqTagsUserBad) }

MoreUploadInputs ==
    { Upload(Bitmap, NameJpg, ReqAB),
      Upload(GoodJpeg, NameBarePng, ReqAB),
      Upload(GoodJpeg, NameNoDot, ReqAB),
      Upload(GoodJpeg, NameDotEnd, ReqAB) }

\* the service with these uploads and POST /images as well, one request at a
\* time
NextUploads ==
    /\ \/ Next
       \/ \E input \in MoreUploadInputs, now \in Times, ok \in BOOLEAN :
             UploadCall(1, input, now, now, ok)
       \/ \E form \in UploadForms, now \in Times, ok \in BOOLEAN :
             UploadEndpoint(1, form, now, now, ok)
    /\ pc'[2] = "idle"

SpecUploads == Init /\ [][NextUploads]_vars

\* readings of the clock on both sides of the end of a month
ClockReadings == {0, 1, 2}

\* upload_image alone, called by one caller with the uploads of UploadInputs
\* and those that fail several checks, and a clock that passes the end of a
\* month
NextChecks ==
    \/ \E input \in UploadInputs
                    \cup {u \in ManyFailures : ImageUploadRequestOK(u.upload_request)},
          now \in ClockReadings, ok \in BOOLEAN :
          \E date_now \in {t \in ClockReadings : t >= now} :
          UploadCall(1, input, now, date_now, ok)
    \/ \E ok \in BOOLEAN : UploadDbPut(1, ok)
    \/ \E ok \in BOOLEAN : UploadRollback(1, ok)
    \/ Return

SpecChecks == Init /\ [][NextChecks]_vars


-----------------------------------------------------------------------------
(* Properties *)

\* C1: in every reachable state, whatever the interleaving of invocations
\* and whichever storage calls failed, every record of the metadata store
\* (deleted ones included) names a blob that the blob store holds.
C1_RecordHasBlob ==
    \A i \in db : "s3_key" \in DOMAIN i /\ i.s3_key \in s3

\* a soft-deleted record is in the metadata store while another delete is
\* in flight
C1_Witness ==
    /\ \E i \in db : Get(i, "is_deleted", FALSE)
    /\ \E p \in Procs : pc[p] = "del_update"

\* C2: an upload that returns after its blob put succeeded and its metadata
\* put failed has called the blob delete exactly once, after the metadata
\* put and on the key of the blob put; it returns the failure 'Failed to
\* store image metadata' whether the delete succeeded or not; and the
\* metadata store holds no record with the id of this upload.
C2_RollbackAfterFailedMetadataPut ==
    (/\ resp.op = "upload"
     /\ Len(resp.calls) >= 2
     /\ resp.calls[1].call = "s3.put" /\ resp.calls[1].ok
     /\ resp.calls[2].call = "db.put" /\ ~resp.calls[2].ok)
    =>
    /\ Len(resp.calls) = 3
    /\ resp.calls[3].call = "s3.delete"
    /\ resp.calls[3].arg = resp.calls[1].arg
    /\ resp.result = Failure("Failed to store image metadata")
    /\ \A i \in db : i.image_id # resp.calls[2].arg

\* an upload returns after the metadata put failed and the blob delete of
\* the rollback failed as well
C2_Witness ==
    /\ resp.op = "upload"
    /\ Len(resp.calls) = 3
    /\ resp.calls[1].ok /\ ~resp.calls[2].ok /\ ~resp.calls[3].ok
    /\ resp.calls[1].arg \in s3

\* C3: the step in which an upload returns after its blob put failed: the
\* blob put is the only storage call of the upload (no metadata put, no blob
\* delete), the result is the failure 'Failed to upload image to storage',
\* and the metadata store is as it was.
C3_FailedBlobPut ==
    [][(/\ resp = NoResp
        /\ resp'.op = "upload"
        /\ resp'.calls # <<>>
        /\ resp'.calls[1].call = "s3.put" /\ ~resp'.calls[1].ok)
       =>
       /\ Len(resp'.calls) = 1
       /\ resp'.result = Failure("Failed to upload image to storage")
       /\ db' = db]_vars

\* an upload of a file that passes every check returns after its blob put
\* failed
C3_Witness ==
    /\ resp.op = "upload"
    /\ resp.calls # <<>>
    /\ ~resp.calls[1].ok
    /\ resp.args.file_content = GoodJpeg

\* C4: the step in which an upload returns a validation failure (any failure
\* other than the two storage failures): the upload has made no storage
\* call, and the blob store and the metadata store are as they were.
C4_ValidationFailure ==
    [][(/\ resp = NoResp
        /\ resp'.op = "upload"
        /\ ~resp'.result.success
        /\ resp'.result.error \notin {"Failed to upload image to storage",
                                      "Failed to store image metadata"})
       =>
       /\ resp'.calls = <<>>
       /\ s3' = s3
       /\ db' = db]_vars

\* an upload is rejected for its file size while the stores hold an earlier
\* upload
C4_Witness ==
    /\ resp.op = "upload"
    /\ ~resp.result.success
    /\ resp.result.error = "File size must be between 1KB and 10MB"
    /\ resp.calls = <<>>
    /\ db # {} /\ s3 # {}

\* C5: with the invocations one after another and the storage calls of the
\* soft delete succeeding, the owner's soft delete of a live record returns
\* success and leaves the record deleted; the owner's soft delete of a record
\* that is already deleted (the second of two calls) returns the failure
\* 'Image already deleted', issues no update, and leaves the metadata store,
\* hence the record, exactly as it was.
C5_SecondSoftDelete ==
    [][(/\ resp = NoResp
        /\ resp'.op = "delete"
        /\ resp'.args.entry.handler = "soft"
        /\ \A k \in 1..Len(resp'.calls) : resp'.calls[k].ok)
       =>
       \A i \in db :
          (i.image_id = resp'.args.image_id /\ i.user_id = resp'.args.user_id)
          =>
          IF Get(i, "is_deleted", FALSE)
          THEN /\ resp'.result = Failure("Image already deleted")
               /\ \A k \in 1..Len(resp'.calls) :
                     resp'.calls[k].call # "db.update"
               /\ db' = db
          ELSE /\ resp'.result.success
               /\ \E j \in db' :
                     /\ SameKey(j, i.image_id, i.created_at)
                     /\ Get(j, "is_deleted", FALSE)]_vars

\* the owner's second soft delete has returned 'Image already deleted' for
\* a record deleted by the first
C5_Witness ==
    /\ resp.op = "delete"
    /\ resp.args.entry.handler = "soft"
    /\ resp.result = Failure("Image already deleted")
    /\ \E i \in db : /\ i.image_id = resp.args.image_id
                     /\ i.user_id = resp.args.user_id
                     /\ Get(i, "is_deleted", FALSE)
                     /\ i.updated_at # None

\* C6: is_deleted never goes back: in every step of every interleaving of
\* uploads, reads, lists, soft deletes and permanent-delete requests, a
\* record whose is_deleted is true is still in the metadata store afterwards
\* with is_deleted true.
C6_DeletedStaysDeleted ==
    [][\A i \in db :
          Get(i, "is_deleted", FALSE)
          => \E j \in db' : /\ SameKey(j, i.image_id, i.created_at)
                            /\ Get(j, "is_deleted", FALSE)]_vars

\* a permanent-delete request on a record that is already deleted has been
\* answered with 200
C6_Witness ==
    /\ resp.op = "delete"
    /\ resp.args.entry.handler = "permanent"
    /\ resp.result.status = 200
    /\ resp.calls # <<>>
    /\ \E i \in db : /\ i.image_id = resp.args.image_id
                     /\ Get(i, "is_deleted", FALSE)
                     /\ Len(resp.calls) = 1

\* C7: the step in which a soft delete returns whose requester is not the
\* owner of the record it read: the result is the failure 'Unauthorized to
\* delete this image', the read is its only storage call (no update), and
\* the metadata store is as it was -- whether the record is live or already
\* deleted.
C7_NonOwnerDelete ==
    [][(/\ resp = NoResp
        /\ resp'.op = "delete"
        /\ resp'.args.entry.handler = "soft"
        /\ resp'.calls[1].ok
        /\ \E i \in db : /\ i.image_id = resp'.args.image_id
                         /\ i.user_id # resp'.args.user_id)
       =>
       /\ resp'.result = Failure("Unauthorized to delete this image")
       /\ Len(resp'.calls) = 1
       /\ resp'.calls[1].call = "db.query"
       /\ db' = db]_vars

\* a non-owner's soft delete of an already deleted record has returned
C7_Witness ==
    /\ resp.op = "delete"
    /\ resp.args.entry.handler = "soft"
    /\ resp.calls[1].ok
    /\ \E i \in db : /\ i.image_id = resp.args.image_id
                     /\ i.user_id # resp.args.user_id
                     /\ Get(i, "is_deleted", FALSE)

\* C8: a soft delete that returns success leaves the record in the metadata
\* store with is_deleted true, and for a record with is_deleted true: the
\* record of every successful upload and its blob are still stored; a get of
\* its id returns the failure 'Image not found', the result a get returns
\* for an id that has no record; and no successful list, by scan or by the
\* owner index, has it among its images.
C8_DeletedIsHidden ==
    /\ (resp.op = "delete" /\ resp.args.entry.handler = "soft"
          /\ resp.result.success)
       => \E i \in db : /\ i.image_id = resp.args.image_id
                        /\ Get(i, "is_deleted", FALSE)
    /\ \A u \in sent : \E i \in db : i.image_id = u.image_id /\ i.s3_key \in s3
    /\ resp.op = "get"
       => /\ (\A i \in db : i.image_id # resp.args.image_id)
                => resp.result = Failure("Image not found")
          /\ (\E i \in db : /\ i.image_id = resp.args.image_id
                            /\ Get(i, "is_deleted", FALSE))
                => resp.result = Failure("Image not found")
    /\ (resp.op = "list" /\ resp.result.success)
       => \A k \in 1..Len(resp.result.images) :
             \A i \in db :
                Get(i, "is_deleted", FALSE)
                => resp.result.images[k].image_id # i.image_id

\* a list by the owner index has returned successfully while the owner's
\* record is soft-deleted
C8_Witness ==
    /\ resp.op = "list"
    /\ resp.result.success
    /\ resp.args.user_id # None
    /\ \E i \in db : /\ Get(i, "is_deleted", FALSE)
                     /\ Some(i.user_id) = resp.args.user_id
                     /\ i.s3_key \in s3

\* C9: a get that read the live record of a successful upload with tags T
\* (T possibly absent) returns success, with the owner of the upload, the
\* format, width and height decoded from the uploaded bytes, and tags equal
\* to T (no tags for an absent T).  The code does not satisfy this: the
\* record of an upload without tags stores tags as '', which ImageResponse
\* rejects.
C9_GetReturnsWhatWasUploaded ==
    (resp.op = "get" /\ resp.calls[1].ok)
    =>
    \A u \in sent :
       (/\ u.image_id = resp.args.image_id
        /\ \E i \in db : /\ i.image_id = u.image_id
                         /\ ~Get(i, "is_deleted", FALSE))
       =>
       LET request == u.input.upload_request
           image   == Val(u.input.file_content.image)
       IN  /\ resp.result.success
           /\ resp.result.image.user_id = request.user_id
           /\ resp.result.image.format = FormatLower(image.format)
           /\ resp.result.image.width = image.width
           /\ resp.result.image.height = image.height
           /\ resp.result.image.tags =
                 (IF IsNone(request.tags) THEN <<>> ELSE Val(request.tags))

\* C10: the download endpoint answers 200 with a URL signed for the record's
\* blob when the record it read is live and the signing succeeds, 404 when
\* the id has no record or the record is soft-deleted, and 500 only when the
\* signing failed.  The code does not satisfy this: the endpoint reads the
\* blob key from get_image's response, which has no such field.
C10_DownloadEndpoint ==
    resp.op = "download"
    =>
    LET records == {i \in db : i.image_id = resp.args.image_id}
        live    == {i \in records : ~Get(i, "is_deleted", FALSE)}
    IN  /\ (resp.calls[1].ok /\ live # {} /\ resp.args.presign_ok)
           => /\ resp.result.status = 200
              /\ resp.result.body.download_url.signed_key
                    \in {i.s3_key : i \in live}
        /\ live = {} => resp.result.status = 404
        /\ resp.result.status = 500 => ~resp.args.presign_ok

\* C11: every image of a successful list, by the service method or by an
\* endpoint, called with a tag filter has that tag string as a substring of
\* its stored tags, and every image of a list called with an owner filter
\* has that owner -- also when both filters are given.  The code does not
\* satisfy this: with an owner given, list_images queries the owner index
\* and ignores the tag.
C11_ListFilters ==
    LET images == IF resp.op = "list" /\ resp.result.success
                  THEN resp.result.images
                  ELSE IF resp.op = "list_http" /\ resp.result.status = 200
                  THEN resp.result.body.images
                  ELSE <<>>
    IN  \A k \in 1..Len(images) :
           /\ ~IsNone(resp.args.user_id)
                 => images[k].user_id = Val(resp.args.user_id)
           /\ ~IsNone(resp.args.tags)
                 => \E i \in db : /\ i.image_id = images[k].image_id
                                  /\ Contains(i.tags, Val(resp.args.tags))

\* C12: list_images called with a non-empty page token that does not
\* decode returns the failure 'Invalid page token' and makes no storage
\* call; called without a token it does not return that failure and reads
\* the store from the start.
C12_InvalidPageToken ==
    resp.op = "list"
    =>
    /\ (~IsNone(resp.args.page_token)
           /\ Val(resp.args.page_token).kind = "garbage")
       => /\ resp.result = Failure("Invalid page token")
          /\ resp.calls = <<>>
    /\ IsNone(resp.args.page_token)
       => /\ resp.result # Failure("Invalid page token")
          /\ Len(resp.calls) = 1
          /\ IsNone(resp.calls[1].arg.start)

\* list_images has returned for a token that does not decode while the
\* table holds a record
C12_Witness ==
    /\ resp.op = "list"
    /\ resp.args.page_token = Some(GarbageToken)
    /\ resp.calls = <<>>
    /\ db # {}

\* C13: a list on any entry point (the service method, GET /images, GET
\* /users/{user_id}/images, GET /tags/{tag}/images) that is given a token
\* the encoder did not produce -- the empty string, a string that does not
\* decode, a token made by hand -- reports a failure and makes no store call,
\* so the token is neither treated as absent nor turned into a start key.
\* The code does not satisfy this: list_images takes the empty string for no
\* token, and hands the store whatever JSON a token decodes to.
C13_DecodeFailsClosed ==
    (/\ resp.op \in {"list", "list_http"}
     /\ ~IsNone(resp.args.page_token)
     /\ Val(resp.args.page_token) \in {EmptyToken, GarbageToken, HandmadeToken})
    =>
    /\ resp.calls = <<>>
    /\ IF resp.op = "list" THEN ~resp.result.success
       ELSE resp.result.status # 200

C15_HasMore ==
    (resp.op = "list" /\ resp.result.success)
    =>
    /\ resp.result.has_more = ~IsNone(resp.calls[1].arg.returned)
    /\ ~IsNone(resp.result.next_page_token) = resp.result.has_more

\* list_images has returned a page with no image, the only item fetched
\* being a deleted one, and has_more true
C15_Witness ==
    /\ resp.op = "list"
    /\ resp.result.success
    /\ resp.result.has_more
    /\ resp.result.images = <<>>
    /\ \E i \in db : Get(i, "is_deleted", FALSE)

\* C16: a request to a list endpoint whose limit is below 1 or above 100 is
\* answered with a validation failure (422 or 400) and no storage call is
\* made; a request without limit and without token reads the store with
\* limit 20, and one with a limit in 1..100 and without token reads it with
\* that limit.
C16_ListLimit ==
    resp.op = "list_http"
    =>
    LET limit == resp.args.limit IN
    IF IsNone(limit)
    THEN IsNone(resp.args.page_token)
            => Len(resp.calls) = 1 /\ resp.calls[1].arg.limit = 20
    ELSE IF Val(limit) < 1 \/ Val(limit) > 100
    THEN resp.result.status \in {400, 422} /\ resp.calls = <<>>
    ELSE IsNone(resp.args.page_token)
            => Len(resp.calls) = 1 /\ resp.calls[1].arg.limit = Val(limit)

\* GET /users/u1/images?limit=101 has been answered while the table holds a
\* record
C16_Witness ==
    /\ resp.op = "list_http"
    /\ resp.args.entry = "users"
    /\ resp.args.limit = Some(101)
    /\ resp.result.status = 422
    /\ db # {}

\* C17: when a blob-store or metadata-store call of upload_image, get_image,
\* list_images or delete_image has failed, the result is a failure, and it
\* is not 'Image not found'.
C17_StorageFailureReported ==
    (/\ resp.op \in {"upload", "get", "list", "delete"}
     /\ \E k \in 1..Len(resp.calls) : ~resp.calls[k].ok)
    =>
    /\ ~resp.result.success
    /\ resp.result.error # "Image not found"

\* C18: every record in the table has a format among jpeg, png, gif and webp
\* and the content type image/<format>, and an upload whose bytes decode as
\* another format is answered with a failure without any storage call.
C18_StoredFormats ==
    /\ \A i \in db :
          /\ i.format \in {"jpeg", "png", "gif", "webp"}
          /\ i.content_type = ContentType(i.format)
    /\ (/\ resp.op = "upload"
        /\ ~IsNone(resp.args.file_content.image)
        /\ Val(resp.args.file_content.image).format
              \notin {Some("JPEG"), Some("PNG"), Some("GIF"), Some("WEBP")})
       => (~resp.result.success /\ resp.calls = <<>>)

\* C19: POST /images with a form whose file part is declared as an image
\* and whose title is longer than 200, whose description is longer than
\* 1000, which has more than 10 tags or a tag longer than 50, is answered
\* with status 400 and a reason other than 'Internal server error'.
C19_FieldPolicyAnswer ==
    (/\ resp.op = "upload_http"
     /\ IsImageContentType(resp.args.content_type)
     /\ LET form == resp.args
            tags == ParseTags(form.tags)
        IN  \/ ~IsNone(form.title) /\ Len(Val(form.title)) > 200
            \/ ~IsNone(form.description) /\ Len(Val(form.description)) > 1000
            \/ ~IsNone(tags) /\ Len(Val(tags)) > 10
            \/ ~IsNone(tags) /\ \E i \in 1..Len(Val(tags)) : Len(Val(tags)[i]) > 50)
    =>
    /\ resp.result.status = 400
    /\ resp.result.body # "Internal server error"

\* C20: upload_image fails on the extension check exactly when the filename
\* has no '.' or the lowercased text after its last '.' is not one of jpg,
\* jpeg, png, gif and webp; the empty filename and a filename without '.'
\* are rejected.
C20_ExtensionAccepted ==
    resp.op = "upload"
    =>
    LET filename == resp.args.filename
        has_dot == \E i \in 1..Len(filename) : filename[i] = "."
        rejected ==
            /\ ~resp.result.success
            /\ resp.result.error
                  = "Invalid file extension. Allowed: jpg, jpeg, png, gif, webp"
    IN  rejected
        = ~(/\ has_dot
            /\ LastSegment(Lower(filename), ".")
                  \in { <<"j","p","g">>, <<"j","p","e","g">>, <<"p","n","g">>,
                        <<"g","i","f">>, <<"w","e","b","p">> })

\* C21: every item of a successful list response has no s3_key field; its
\* fields are download_url, which is absent or the signed URL of the record,
\* thumbnail_url, which is absent, and fields copied from the record that
\* are not its s3_key.
C21_NoStorageKeyInList ==
    (resp.op = "list" /\ resp.result.success)
    =>
    \A k \in 1..Len(resp.result.images) :
        LET item == resp.result.images[k] IN
        /\ "s3_key" \notin DOMAIN item
        /\ DOMAIN item = ImageResponseFields \cup {"download_url", "thumbnail_url"}
        /\ IsNone(item.thumbnail_url)
        /\ \E i \in db :
              /\ \A f \in ImageResponseFields \ {"tags"} : item[f] = i[f]
              /\ item.download_url
                    \in {None, Some([signed_key |-> i.s3_key,
                                     expires_in |-> DEFAULT_EXPIRATION])}

\* a list response with an item that carries a download URL
C21_Witness ==
    /\ resp.op = "list"
    /\ resp.result.success
    /\ \E k \in 1..Len(resp.result.images) :
          ~IsNone(resp.result.images[k].download_url)

C24_FailedUpdateKeepsRecord ==
    [][(/\ resp' # resp
        /\ resp'.op = "delete"
        /\ resp'.args.entry.handler = "soft"
        /\ Len(resp'.calls) = 2
        /\ ~resp'.calls[2].ok)
       => /\ resp'.result = Failure("Failed to delete image")
          /\ db' = db
          /\ \E i \in db' :
                /\ <<i.image_id, i.created_at>> = resp'.calls[2].arg
                /\ ~i.is_deleted
                /\ IsNone(i.updated_at)
                /\ IsNone(DeleteCheck(Some(i), resp'.args.user_id))
      ]_vars

\* delete_image has returned 'Failed to delete image' and the record is live
C24_Witness ==
    /\ resp.op = "delete"
    /\ resp.args.entry.handler = "soft"
    /\ resp.result = Failure("Failed to delete image")
    /\ \E i \in db : i.image_id = resp.args.image_id /\ ~i.is_deleted

\* C25: DELETE /images/{id} answers 200 exactly when delete_image succeeded,
\* 404 exactly when it returned 'Image not found', 403 exactly when it
\* returned 'Unauthorized to delete this image' and 410 exactly when it
\* returned 'Image already deleted'; and when the metadata read succeeded,
\* 404 is answered exactly when no record has the id, 403 exactly when the
\* record has another owner, 410 exactly when the caller's record was
\* already marked, and 200 only after a successful update.
C25_DeleteStatus ==
    (resp.op = "delete" /\ resp.args.entry.handler = "endpoint")
    =>
    LET status == resp.result.status
        rec == {i \in db : i.image_id = resp.args.image_id}
        mine == {i \in rec : i.user_id = resp.args.user_id}
    IN  /\ status \in {200, 400, 403, 404, 410}
        /\ status = 404 => resp.result.body = "Image not found"
        /\ status = 403 => resp.result.body = "Unauthorized to delete this image"
        /\ status = 410 => resp.result.body = "Image already deleted"
        /\ status = 400 => resp.result.body = "Failed to delete image"
        /\ status = 200 <=> (Len(resp.calls) = 2 /\ resp.calls[2].ok)
        /\ status = 200 => \A i \in mine : i.is_deleted
        /\ resp.calls[1].ok
              => /\ status = 404 <=> rec = {}
                 /\ status = 403 <=> (rec # {} /\ mine = {})
                 /\ status = 410 <=> (/\ mine # {}
                                      /\ Len(resp.calls) = 1
                                      /\ \A i \in mine : i.is_deleted)

\* DELETE /images/{id} has answered 410 for a record that is marked
C25_Witness ==
    /\ resp.op = "delete"
    /\ resp.args.entry.handler = "endpoint"
    /\ resp.result.status = 410
    /\ \E i \in db : i.image_id = resp.args.image_id /\ i.is_deleted

\* C26: DELETE /images/{id}/permanent without the confirmation header or
\* with a confirmation other than 'PERMANENT_DELETE' is answered with 400
\* and without any storage call.
C26_PermanentNeedsConfirmation ==
    (/\ resp.op = "delete"
     /\ resp.args.entry.handler = "permanent"
     /\ \/ "confirmation" \notin DOMAIN resp.args.entry
        \/ resp.args.entry.confirmation # "PERMANENT_DELETE")
    =>
    /\ resp.result.status = 400
    /\ resp.calls = <<>>

\* C27: when the arguments of upload_image fail one or more of the checks,
\* the call fails without a storage call and its error is that of the first
\* check that fails in the order extension, size, content and dimensions,
\* title, description, tags, user id.
C27_FirstFailureWins ==
    resp.op = "upload"
    =>
    LET a == resp.args
        content == validate_image_content(a.file_content)
        title == validate_title(a.upload_request.title)
        description == validate_description(a.upload_request.description)
        tags == validate_tags(a.upload_request.tags)
        user == validate_user_id(a.upload_request.user_id)
        failing ==
            <<~validate_file_extension(a.filename),
              ~validate_file_size(a.file_content.size),
              ~content.valid, ~title.valid, ~description.valid,
              ~tags.valid, ~user.valid>>
        errors ==
            <<"Invalid file extension. Allowed: jpg, jpeg, png, gif, webp",
              "File size must be between 1KB and 10MB",
              IF content.valid THEN "" ELSE content.error,
              IF title.valid THEN "" ELSE title.error,
              IF description.valid THEN "" ELSE description.error,
              IF tags.valid THEN "" ELSE tags.error,
              IF user.valid THEN "" ELSE user.error>>
    IN  \A k \in 1..7 :
           (failing[k] /\ \A j \in 1..(k - 1) : ~failing[j])
           => /\ ~resp.result.success
              /\ resp.result.error = errors[k]
              /\ resp.calls = <<>>

\* upload_image has returned for arguments that fail the size check, the
\* content check and three metadata checks
C27_Witness ==
    /\ resp.op = "upload"
    /\ ~resp.result.success
    /\ validate_file_extension(resp.args.filename)
    /\ ~validate_file_size(resp.args.file_content.size)
    /\ ~validate_image_content(resp.args.file_content).valid
    /\ ~validate_title(resp.args.upload_request.title).valid
    /\ ~validate_tags(resp.args.upload_request.tags).valid
    /\ ~validate_user_id(resp.args.upload_request.user_id).valid

\* C28: every record of the table has the s3_key made of the year and month
\* of its created_at, its image_id and its format.
C28_KeyMatchesCreatedAt ==
    \A i \in db :
        i.s3_key = S3Key(YearMonth(i.created_at), i.image_id, i.format)

\* C29: delete_image returns success, and writes updated_at, only in a step
\* before which the record was not deleted; so of the invocations on one
\* record at most one returns success.
C29_OneDeleteSucceeds ==
    [][(/\ resp' # resp
        /\ resp'.op = "delete"
        /\ resp'.args.entry.handler = "soft"
        /\ resp'.result.success)
       => \E i \in db :
             /\ i.image_id = resp'.args.image_id
             /\ ~i.is_deleted
             /\ IsNone(i.updated_at)
      ]_vars

\* C30: when list_images, called without a token, returns a page with
\* has_more = false, the walk ends with this page, so the page holds every
\* record that is not deleted and matches the filters exactly once, it was
\* read with one store fetch, and it has at most limit items.
C30_SinglePageWalk ==
    (/\ resp.op = "list"
     /\ IsNone(resp.args.page_token)
     /\ resp.result.success
     /\ ~resp.result.has_more)
    =>
    LET a == resp.args
        images == resp.result.images
        Matches(i) ==
            /\ ~i.is_deleted
            /\ ~IsNone(a.user_id) => i.user_id = Val(a.user_id)
            /\ ~IsNone(a.tags) => Contains(i.tags, Val(a.tags))
    IN  /\ Len(resp.calls) = 1
        /\ Len(images) <= a.limit
        /\ \A i \in db :
              Matches(i)
              => Cardinality({k \in 1..Len(images) :
                                 images[k].image_id = i.image_id}) = 1

=============================================================================
